---- MODULE Spec2Model ----
(***************************************************************************)
(* rtspArchive: the recorder (a registry of named ffmpeg instances), the   *)
(* fileRotator (a list of tracked files swept by age) and the app glue     *)
(* that chains them through the begin/end callbacks.                       *)
(*                                                                         *)
(* Node's event loop is the scheduler: every action below is one           *)
(* run-to-suspension piece of a handler (from one await to the next).      *)
(***************************************************************************)
EXTENDS Integers, Sequences, FiniteSets, TLC

(* ------------------------------ bounds -------------------------------- *)

\* the last second of the clock where the rotator is driven by its caller
MaxTime == 2
\* the last second of the clock of the app: the begin callback of an instance
\* that starts at 0 is followed to the end of its wait, those of later ones
\* are not
MaxAppTime == 3
\* the last second of the clock of the timed specification
Horizon == 35
\* failures the environment injects in one run (a delete that is refused, a
\* directory that cannot be made, a glob that throws, an output never written)
MaxFaults == 1
\* rotate() invocations whose bookkeeping is kept at the same time
MaxSweeps == 2
\* tracked entries
MaxFiles == 2
\* instance objects addInstance creates in one run
MaxInst == 3
\* ffmpeg.run() calls on one instance whose processes are followed
MaxRuns == 2

(* --------------------------- configuration ---------------------------- *)

\* config.streams, in configuration order
Streams ==
    << [name |-> "cam1", storageDuration |-> 3, fileDuration |-> 1],
       [name |-> "cam2", storageDuration |-> 0, fileDuration |-> 0] >>

\* storage durations a caller of fileRotator.addFile may pass
Durations == {0, 1}

\* a path below config.destinationDirectory: <<stream directory, file name>>;
\* the file name is the second it was allocated in (HH:mm:ss)
OldFile == << "cam1", -1 >>
OrphanFile == << "unknown", -1 >>
DirPath == << "cam2", -1 >>
\* the seconds addInstance adds to fileDuration for the supervision timeout
TimeoutSlack == 30

\* paths a direct caller of the fileRotator names
ApiPaths == {OldFile, OrphanFile, DirPath}

VARIABLES
    now,        \* the wall clock, moment(), in seconds
    faults,     \* the failures the environment injected so far
    disk,       \* the file system: path -> [isFile, birthtime]
    fileList,   \* fileRotator._fileList
    sweeps,     \* the rotate() invocations: their position and what they did
    ret,        \* what the last addFile / addInstance of a direct caller returned
    call,       \* the addFile or removeFile of a direct caller that is in flight
    insts,      \* every instance object addInstance created, by creation order
    active,     \* recorder._ffmpegInstances: the instance objects in the array
    tasks,      \* the begin and end callbacks invoked so far, and where each is
    boot,       \* app.run(): where the startup sequence is
    dirs        \* the directories below config.destinationDirectory

vars == << now, faults, disk, fileList, sweeps, ret, call, insts, active, tasks,
          boot, dirs >>
rotVars == << disk, fileList, sweeps, call >>
recVars == << insts, active >>
appVars == << tasks, boot, dirs >>

(* ------------------------------ helpers ------------------------------- *)

SelectSeqByMutAll(list, p) == << >>
RECURSIVE SelectSeqBy(_, _)
\* Array.prototype.filter with the predicate "path differs from p"
SelectSeqBy(list, p) ==
    IF list = << >> THEN << >>
    ELSE IF Head(list).path # p
         THEN << Head(list) >> \o SelectSeqBy(Tail(list), p)
         ELSE SelectSeqBy(Tail(list), p)

TrackedPaths == { fileList[i].path : i \in DOMAIN fileList }

(* ---------------------------- fileRotator ----------------------------- *)

\* what _getFileStats returns when stat throws (false)
NoStats == [found |-> FALSE, isFile |-> FALSE, birthtime |-> 0]

\* _getFileStats: the stats of the path, or false when stat throws
getFileStats(path) ==
    IF path \in DOMAIN disk
    THEN [found |-> TRUE, isFile |-> disk[path].isFile,
          birthtime |-> disk[path].birthtime]
    ELSE NoStats

\* the guard of addFile: !fileStats || !fileStats.isFile()
NotAFileMutMissingOnly(fileStats) == ~fileStats.found
NotAFile(fileStats) == ~fileStats.found \/ ~fileStats.isFile

\* addFile after its await: the list once the stat resolved with fileStats
addFileList(list, path, storageDuration, fileStats) ==
    IF NotAFile(fileStats) THEN list
    ELSE Append(list, [path |-> path, storageDuration |-> storageDuration,
                       stats |-> fileStats])

\* addFile: the value the call resolves to (false, or nothing)
addFileRet(fileStats) ==
    IF NotAFile(fileStats) THEN "false" ELSE "undefined"

\* the call of a direct caller, who awaits each addFile and removeFile before
\* the next: none in flight; an addFile whose stat was carried out; a
\* removeFile whose unlink was carried out
IdleCall ==
    [st |-> "idle", path |-> << >>, storageDuration |-> 0, stats |-> NoStats,
     ok |-> FALSE]
StatCall(path, storageDuration, fileStats) ==
    [st |-> "stat", path |-> path, storageDuration |-> storageDuration,
     stats |-> fileStats, ok |-> FALSE]
UnlinkCall(path, ok) ==
    [st |-> "unlink", path |-> path, storageDuration |-> 0, stats |-> NoStats,
     ok |-> ok]

\* rotate: timeDifference > file.storageDuration, at time t
ExpiredMutReread(file, t) ==
    /\ file.path \in DOMAIN disk
    /\ t - disk[file.path].birthtime > file.storageDuration
ExpiredMutGE(file, t) == t - file.stats.birthtime >= file.storageDuration
Expired(file, t) == t - file.stats.birthtime > file.storageDuration

\* the environment may inject one more failure, where one changes the outcome
Inject(fault, effective) ==
    /\ fault => effective /\ faults < MaxFaults
    /\ faults' = IF fault THEN faults + 1 ELSE faults

\* fs.unlink can succeed: the path is an existing regular file
Deletable(path) == path \in DOMAIN disk /\ disk[path].isFile

\* fs.unlink succeeds unless the path is gone, a directory, or refused
UnlinkOkMutMissing(path, fault) == ~fault
UnlinkOk(path, fault) == Deletable(path) /\ ~fault

\* removeFile after its await: the list once the unlink resolved (ok) or threw
removeFileListMutAlways(list, path, ok) == SelectSeqBy(list, path)
removeFileList(list, path, ok) ==
    IF ok THEN SelectSeqBy(list, path) ELSE list

\* removeFile: the file system once the unlink was carried out
removeFileDisk(path, ok) ==
    IF ok THEN [q \in DOMAIN disk \ {path} |-> disk[q]] ELSE disk

\* what a sweep notes about one entry it evaluated
Note(file, t, res) ==
    [path |-> file.path, storageDuration |-> file.storageDuration,
     birthtime |-> file.stats.birthtime, res |-> res]

RECURSIVE asyncForEach(_, _, _, _)
\* rotate's loop from index k at time t: entries that are not expired are
\* passed without a suspension; the first expired one calls removeFile and
\* suspends in its unlink.  idx = 0: the loop ran off the end of the array.
asyncForEach(iterable, k, t, log) ==
    IF k > Len(iterable) THEN [idx |-> 0, path |-> << >>, seen |-> log]
    ELSE IF Expired(iterable[k], t)
         THEN [idx |-> k, path |-> iterable[k].path,
               seen |-> Append(log, Note(iterable[k], t, "pending"))]
         ELSE asyncForEach(iterable, k + 1, t,
                           Append(log, Note(iterable[k], t, "skip")))

\* a rotate() call.  aliased: the array it iterates is still the one
\* this._fileList refers to; arr: that array otherwise; idx, path: the entry
\* whose removeFile it awaits; unlink: that removeFile's unlink is called, or
\* carried out (ok, fail) and not yet resolved; start: the list when it was
\* called; seen: the entries it evaluated, in order, and what became of each
IdleSweep ==
    [st |-> "idle", aliased |-> FALSE, arr |-> << >>, idx |-> 0,
     path |-> << >>, unlink |-> "none", start |-> << >>, seen |-> << >>]

\* the array object a sweep iterates: this._fileList as it was when rotate()
\* was called.  removeFile assigns a new array to this._fileList, addFile
\* pushes onto the current one, so the sweep sees pushes until the first filter
IterableMutLive(sw, live) == live
Iterable(sw, live) == IF sw.aliased THEN live ELSE sw.arr

\* the slot a new rotate() call is booked in: an unused one, else a finished one
FreeSweeps ==
    IF \E s \in 1..MaxSweeps : sweeps[s].st = "idle"
    THEN { s \in 1..MaxSweeps : sweeps[s].st = "idle" }
    ELSE { s \in 1..MaxSweeps : sweeps[s].st = "done" }

NewSweep == CHOOSE s \in FreeSweeps : \A u \in FreeSweeps : s <= u

\* rotate() up to its first suspension
rotateBegin(list, t) ==
    LET r == asyncForEach(list, 1, t, << >>) IN
    [st |-> IF r.idx = 0 THEN "done" ELSE "pending",
     aliased |-> r.idx # 0, arr |-> << >>, idx |-> r.idx, path |-> r.path,
     unlink |-> IF r.idx = 0 THEN "none" ELSE "called",
     start |-> list, seen |-> r.seen]

\* a rotate() the app awaits: once it resolved, its caller goes on and what
\* the sweep did is not kept
awaited(sw) == IF sw.st = "done" THEN IdleSweep ELSE sw

\* every sweep that iterates the live array keeps the old array object when
\* removeFile replaces this._fileList
Detach(sw, ok) ==
    IF ok /\ sw.st = "pending" /\ sw.aliased
    THEN [sw EXCEPT !.aliased = FALSE, !.arr = fileList]
    ELSE sw

\* rotate() resumed after the removeFile of its entry idx returned, its
\* unlink resolved (ok) or thrown
rotateResumeMutRetry(sw, ok, newList, t) ==
    LET d == Detach(sw, ok)
        noted == [d.seen EXCEPT ![Len(d.seen)].res = "ok"]
        r == asyncForEach(Iterable(d, newList), d.idx + 1, t, noted)
    IN  IF ~ok THEN [sw EXCEPT !.unlink = "called"]
        ELSE IF r.idx = 0
        THEN [d EXCEPT !.st = "done", !.aliased = FALSE, !.arr = << >>,
                       !.idx = 0, !.path = << >>, !.unlink = "none",
                       !.seen = r.seen]
        ELSE [d EXCEPT !.idx = r.idx, !.path = r.path, !.unlink = "called",
                       !.seen = r.seen]
rotateResume(sw, ok, newList, t) ==
    LET d == Detach(sw, ok)
        noted == [d.seen EXCEPT ![Len(d.seen)].res = IF ok THEN "ok" ELSE "fail"]
        r == asyncForEach(Iterable(d, newList), d.idx + 1, t, noted)
    IN  IF r.idx = 0
        THEN [d EXCEPT !.st = "done", !.aliased = FALSE, !.arr = << >>,
                       !.idx = 0, !.path = << >>, !.unlink = "none",
                       !.seen = r.seen]
        ELSE [d EXCEPT !.idx = r.idx, !.path = r.path, !.unlink = "called",
                       !.seen = r.seen]

(* ------------------------------ recorder ------------------------------ *)

StreamNames == { Streams[k].name : k \in DOMAIN Streams }

\* addInstance: instanceAlreadyExists, over this._ffmpegInstances
instanceAlreadyExistsMutNever(objs, list, name) == FALSE
instanceAlreadyExists(objs, list, name) ==
    \E k \in DOMAIN list : objs[list[k]].name = name

\* addInstance: the timeout option of the ffmpeg command, in seconds:
\* if (streamMeta.fileDuration) { timeout: streamMeta.fileDuration + 30 }
timeoutOfMutNoSlack(streamMeta) ==
    [armed |-> streamMeta.fileDuration # 0, seconds |-> streamMeta.fileDuration]
timeoutOf(streamMeta) ==
    IF streamMeta.fileDuration # 0
    THEN [armed |-> TRUE, seconds |-> streamMeta.fileDuration + TimeoutSlack]
    ELSE [armed |-> FALSE, seconds |-> 0]

\* addInstance: if (streamMeta.fileDuration) newFfmpeg.duration(fileDuration)
durationOf(streamMeta) ==
    IF streamMeta.fileDuration # 0
    THEN [capped |-> TRUE, seconds |-> streamMeta.fileDuration]
    ELSE [capped |-> FALSE, seconds |-> 0]

\* addInstance: newInstance, with the ffmpeg command not run yet.  procs are
\* the processes ffmpeg.run() spawned for it, events what its command emitted,
\* timers the instants the supervision timeouts were started at (on a clock)
newInstance(streamMeta, destination, cb) ==
    [name |-> streamMeta.name, destination |-> destination,
     streamMeta |-> streamMeta, cb |-> cb, procs |-> << >>, events |-> << >>,
     timeout |-> timeoutOf(streamMeta), duration |-> durationOf(streamMeta),
     timers |-> << >>]

\* addInstance: what the call returns
addInstanceRet(objs, list, streamMeta) ==
    IF instanceAlreadyExists(objs, list, streamMeta.name)
    THEN "false" ELSE "undefined"

\* addInstance: the instance objects after the call
addInstanceObjs(objs, list, streamMeta, destination, cb) ==
    IF instanceAlreadyExists(objs, list, streamMeta.name) THEN objs
    ELSE Append(objs, newInstance(streamMeta, destination, cb))

\* addInstance: this._ffmpegInstances after the call
addInstanceList(objs, list, streamMeta) ==
    IF instanceAlreadyExists(objs, list, streamMeta.name) THEN list
    ELSE Append(list, Len(objs) + 1)

\* instance.ffmpeg.run(): one more process is spawned for the command
ffmpegRun(inst) ==
    IF Len(inst.procs) < MaxRuns
    THEN [inst EXCEPT !.procs = Append(@, "spawning")]
    ELSE inst

\* run: every instance in the array
runTargets(objs, list) == { list[k] : k \in DOMAIN list }

\* runSingle: the first instance in the array with the name, if any
runSingleTargetsMutAll(objs, list, name) == { list[k] : k \in DOMAIN list }
runSingleTargetsMutNone(objs, list, name) == {}
runSingleTargets(objs, list, name) ==
    LET ks == { k \in DOMAIN list : objs[list[k]].name = name } IN
    IF ks = {} THEN {}
    ELSE { list[CHOOSE k \in ks : \A j \in ks : k <= j] }

\* the instance objects after ffmpeg.run() on the targets
runObjs(objs, targets) ==
    [i \in DOMAIN objs |-> IF i \in targets THEN ffmpegRun(objs[i]) ELSE objs[i]]

RECURSIVE filterByName(_, _, _)
\* this._ffmpegInstances.filter(instanceInner => instanceInner.name !== name)
filterByName(objs, list, name) ==
    IF list = << >> THEN << >>
    ELSE IF objs[Head(list)].name # name
         THEN << Head(list) >> \o filterByName(objs, Tail(list), name)
         ELSE filterByName(objs, Tail(list), name)

\* the end handler: this._ffmpegInstances after it
endHandlerListMutKeep(objs, list, name) == list
endHandlerList(objs, list, name) == filterByName(objs, list, name)

\* the error handler is a function expression: its this is the ffmpeg command,
\* which has no _ffmpegInstances, so the filter throws before the recorder's
\* array is assigned; the logger's handleExceptions / exitOnError: false keeps
\* the process alive
errorHandlerList(objs, list, name) == list

\* which handlers invoke endCallback
endCallbackInvokedMutOnError(event) == event \in {"end", "error"}
endCallbackInvoked(event) == event = "end"

\* the command emitted an event for its k-th process
emitted(objs, i, k, event, phase) ==
    [objs EXCEPT ![i].procs[k] = phase, ![i].events = Append(@, event)]

\* ---- the recorder with stop() and stopSingle(), whose handlers only log ----

\* instance.ffmpeg.kill(): the signal goes to the processes that are up; a
\* command whose process is not spawned yet has none to signal
ffmpegKill(inst) ==
    [inst EXCEPT !.procs = [k \in DOMAIN @ |->
                               IF @[k] = "running" THEN "killing" ELSE @[k]]]

\* the instance objects after ffmpeg.kill() on the targets
stopObjs(objs, targets) ==
    [i \in DOMAIN objs |-> IF i \in targets THEN ffmpegKill(objs[i]) ELSE objs[i]]

\* stop, stopSingle: this._ffmpegInstances after the call
stopListMutDrop(objs, list) ==
    SelectSeq(list, LAMBDA i : \A k \in DOMAIN objs[i].procs :
                                  objs[i].procs[k] # "running")
stopList(objs, list) == list

\* stopSingle calls instance.ffmpeg.stop() on the first instance with the
\* name: where the command object has no such method the call throws a
\* TypeError out of stopSingle, otherwise it asks the process to terminate
stopSingleRet(objs, list, name, hasStop) ==
    IF runSingleTargets(objs, list, name) # {} /\ ~hasStop
    THEN "TypeError" ELSE "undefined"

stopSingleObjs(objs, list, name, hasStop) ==
    IF hasStop THEN stopObjs(objs, runSingleTargets(objs, list, name)) ELSE objs

\* ---- the supervision timeout on a clock ----

\* the command started the timeout of its k-th process at time t
armTimer(objs, i, k, t) ==
    [objs EXCEPT ![i].timers = Append(@, [proc |-> k, at |-> t])]

\* when the k-th process of the instance was spawned
startedAt(inst, k) ==
    LET js == { j \in DOMAIN inst.timers : inst.timers[j].proc = k } IN
    inst.timers[CHOOSE j \in js : TRUE].at

\* at time t the timeout of the k-th process has run out
Due(inst, k, t) ==
    /\ inst.timeout.armed
    /\ \E j \in DOMAIN inst.timers : inst.timers[j].proc = k
    /\ t - startedAt(inst, k) >= inst.timeout.seconds

(* -------------------------------- app --------------------------------- *)

\* h.wait(3000) in recorderBeginCallback, in seconds
WaitSeconds == 3

\* the files that can be below the destination directory at startup, in the
\* order glob lists them
GlobOrder == << OldFile, OrphanFile >>

\* addOldFilesToRotator: the storage duration of the first configured stream
\* named like the first path segment, 0 when there is none
streamStorageDurationMutZero(streams, streamName) == 0

RECURSIVE streamStorageDuration(_, _)
streamStorageDuration(streams, streamName) ==
    IF streams = << >> THEN 0
    ELSE IF Head(streams).name = streamName THEN Head(streams).storageDuration
         ELSE streamStorageDuration(Tail(streams), streamName)

\* globAsync(`${destinationDirectory}/**`, {nodir: true})
globFiles ==
    SelectSeq(GlobOrder, LAMBDA p : p \in DOMAIN disk /\ disk[p].isFile)

\* ensureStreamDirExists: the directory, or false when ensureDir threw
ensureStreamDirExists(stream, fault) == IF fault THEN "false" ELSE stream.name

\* `${streamDir}${moment().format(`HH:mm:ss`)}.mp4`
streamPath(streamDir, t) == << streamDir, t >>

\* the directories of a stream: the stream's own, which the files of earlier
\* days are below, and the one of the day, ${name}/${year}/${month}/${day}/
StreamDir(name) == << name, "stream" >>
DayDir(name) == << name, "day" >>

\* fs.ensureDir(fullDestinationPath): the directory and its parents are there
ensureDir(ds, name) == ds \cup {StreamDir(name), DayDir(name)}

\* the directory a file is in: the files the app allocates are in the
\* directory of the day, the old ones are not
DirOf(path) == IF path[2] < 0 THEN StreamDir(path[1]) ELSE DayDir(path[1])

\* the file is in the directory or below it
Below(path, d) == path[1] = d[1] /\ (d = StreamDir(d[1]) \/ DirOf(path) = d)

\* deleteEmpty(config.destinationDirectory): the directories left, those with
\* a file in or below them
deleteEmptyDirs(fs, ds) ==
    { d \in ds : \E p \in DOMAIN fs : fs[p].isFile /\ Below(p, d) }

\* deleteEmpty: empty subdirectories go as well
deleteEmptyDisk(fs) ==
    [p \in { q \in DOMAIN fs : fs[q].isFile } |-> fs[p]]

\* a callback invoked by an event handler
beginTaskMutFirstStream(i, streamMeta, destination, t) ==
    [kind |-> "begin", inst |-> i, streamMeta |-> Streams[1],
     destination |-> destination, pc |-> "wait", wake |-> t + WaitSeconds,
     stats |-> NoStats, sweep |-> 0, res |-> "none", next |-> 0]

beginTask(i, streamMeta, destination, t) ==
    [kind |-> "begin", inst |-> i, streamMeta |-> streamMeta,
     destination |-> destination, pc |-> "wait", wake |-> t + WaitSeconds,
     stats |-> NoStats, sweep |-> 0, res |-> "none", next |-> 0]

endTask(i, streamMeta, destination) ==
    [kind |-> "end", inst |-> i, streamMeta |-> streamMeta,
     destination |-> destination, pc |-> "ensureDir", wake |-> 0,
     stats |-> NoStats, sweep |-> 0, res |-> "none", next |-> 0]

PendingEnds == { k \in DOMAIN tasks : tasks[k].kind = "end" /\ tasks[k].pc # "done" }

\* ffmpeg opens its output when the directory of the day is there (a
\* relative "false..." path lands in the working directory)
CanCreate(destination) ==
    destination[1] = "false" \/ DirOf(destination) \in dirs

\* the file system after ffmpeg created (or failed to create) its output
created(fs, destination, t, fault) ==
    IF ~fault /\ CanCreate(destination) /\ destination \notin DOMAIN fs
    THEN [p \in DOMAIN fs \cup {destination} |->
            IF p = destination THEN [isFile |-> TRUE, birthtime |-> t] ELSE fs[p]]
    ELSE fs

\* the callbacks after a sweep moved: the begin callback that awaits a
\* finished rotate() goes on to deleteEmpty
tasksAfterSweep(ts, s, sw) ==
    [k \in DOMAIN ts |->
        IF ts[k].pc = "rotate" /\ ts[k].sweep = s /\ sw.st = "done"
        THEN [ts[k] EXCEPT !.pc = "deleteEmpty", !.sweep = 0]
        ELSE ts[k]]

\* the sweep is a rotate() call a callback or app.run() awaits
Awaited(s) ==
    \/ boot.pc = "rotate" /\ boot.sweep = s
    \/ \E k \in DOMAIN tasks : tasks[k].pc = "rotate" /\ tasks[k].sweep = s

\* app.run after the sweep it awaits moved: on to the streams
bootAfterSweepMutEarly(b, s, sw) ==
    IF b.pc = "rotate" /\ b.sweep = s
    THEN [b EXCEPT !.pc = "streams", !.sweep = 0, !.k = 1]
    ELSE b

bootAfterSweep(b, s, sw) ==
    IF b.pc = "rotate" /\ b.sweep = s /\ sw.st = "done"
    THEN [b EXCEPT !.pc = "streams", !.sweep = 0, !.k = 1]
    ELSE b

(* ------------------------------ actions ------------------------------- *)

Init ==
    /\ now = 0
    /\ faults = 0
    /\ disk = [p \in ApiPaths |->
                 [isFile |-> p # DirPath, birthtime |-> -1]]
    /\ fileList = << >>
    /\ sweeps = [s \in 1..MaxSweeps |-> IdleSweep]
    /\ ret = "none"
    /\ call = IdleCall
    /\ insts = << >>
    /\ active = << >>
    /\ tasks = << >>
    /\ boot = [pc |-> "idle", files |-> << >>, stats |-> NoStats, sweep |-> 0, k |-> 0]
    /\ dirs = { StreamDir(p[1]) : p \in ApiPaths }

\* the clock advances by a second, up to the last one followed
Tick(last) ==
    /\ now < last
    /\ now' = now + 1
    /\ UNCHANGED << faults, disk, fileList, sweeps, ret, recVars, appVars, call >>

\* somebody else removes a file
ExternalDelete(p) ==
    /\ p \in DOMAIN disk
    /\ disk[p].isFile
    /\ disk' = [q \in DOMAIN disk \ {p} |-> disk[q]]
    /\ UNCHANGED << now, faults, fileList, sweeps, ret, recVars, appVars, call >>

\* somebody else replaces a file: same path, created now
ExternalReplace(p) ==
    /\ p \in DOMAIN disk
    /\ disk[p].isFile
    /\ disk[p].birthtime < now
    /\ disk' = [disk EXCEPT ![p].birthtime = now]
    /\ UNCHANGED << now, faults, fileList, sweeps, ret, recVars, appVars, call >>

\* fileRotator.addFile(path, storageDuration) by a direct caller, up to its
\* await: the stat is carried out
addFile(path, storageDuration) ==
    /\ call.st = "idle"
    /\ Len(fileList) < MaxFiles
    /\ call' = StatCall(path, storageDuration, getFileStats(path))
    /\ UNCHANGED << now, faults, disk, fileList, sweeps, ret, recVars, appVars >>

\* addFile after its await: the stat resolved or threw
addFileDone ==
    /\ call.st = "stat"
    /\ fileList' = addFileList(fileList, call.path,
                               call.storageDuration, call.stats)
    /\ ret' = addFileRet(call.stats)
    /\ call' = IdleCall
    /\ UNCHANGED << now, faults, disk, sweeps, recVars, appVars >>

\* fileRotator.removeFile(path) by a direct caller, up to its await: the
\* unlink is carried out
removeFile(path, fault) ==
    /\ call.st = "idle"
    /\ Inject(fault, Deletable(path))
    /\ disk' = removeFileDisk(path, UnlinkOk(path, fault))
    /\ call' = UnlinkCall(path, UnlinkOk(path, fault))
    /\ UNCHANGED << now, fileList, sweeps, ret, recVars, appVars >>

\* removeFile after its await: the unlink resolved or threw
removeFileDone ==
    /\ call.st = "unlink"
    /\ fileList' = removeFileList(fileList, call.path, call.ok)
    /\ sweeps' = [s \in 1..MaxSweeps |-> Detach(sweeps[s], call.ok)]
    /\ call' = IdleCall
    /\ UNCHANGED << now, faults, disk, ret, recVars, appVars >>

\* fileRotator.rotate(), called: runs to the removeFile of its first expired
\* entry, which calls unlink
rotate ==
    /\ FreeSweeps # {}
    /\ sweeps' = [sweeps EXCEPT ![NewSweep] = rotateBegin(fileList, now)]
    /\ UNCHANGED << now, faults, disk, fileList, ret, call, recVars, appVars >>

\* the unlink a sweep waits for is carried out
rotateUnlink(s, fault) ==
    /\ sweeps[s].st = "pending"
    /\ sweeps[s].unlink = "called"
    /\ Inject(fault, Deletable(sweeps[s].path))
    /\ disk' = removeFileDisk(sweeps[s].path, UnlinkOk(sweeps[s].path, fault))
    /\ sweeps' = [sweeps EXCEPT ![s].unlink =
                    IF UnlinkOk(sweeps[s].path, fault) THEN "ok" ELSE "fail"]
    /\ UNCHANGED << now, fileList, ret, call, recVars, appVars >>

\* the unlink a sweep waits for resolves or throws: removeFile filters the
\* list (or not) and returns, the sweep runs on
rotateUnlinkDone(s) ==
    /\ sweeps[s].st = "pending"
    /\ sweeps[s].unlink \in {"ok", "fail"}
    /\ LET sw == sweeps[s]
           path == sw.path
           ok == sw.unlink = "ok"
           newList == removeFileList(fileList, path, ok)
       IN  /\ fileList' = newList
           /\ sweeps' = [u \in 1..MaxSweeps |->
                           IF u # s THEN Detach(sweeps[u], ok)
                           ELSE IF Awaited(s)
                                THEN awaited(rotateResume(sw, ok, newList, now))
                                ELSE rotateResume(sw, ok, newList, now)]
           /\ tasks' = tasksAfterSweep(tasks, s, rotateResume(sw, ok, newList, now))
           /\ boot' = bootAfterSweep(boot, s, rotateResume(sw, ok, newList, now))
    /\ UNCHANGED << now, faults, disk, ret, call, recVars, dirs >>

\* recorder.addInstance({streamMeta, destination}) by a direct caller,
\* without callbacks
addInstance(streamMeta, destination) ==
    /\ Len(insts) < MaxInst
    /\ ret' = addInstanceRet(insts, active, streamMeta)
    /\ insts' = addInstanceObjs(insts, active, streamMeta, destination, FALSE)
    /\ active' = addInstanceList(insts, active, streamMeta)
    /\ UNCHANGED << now, faults, rotVars, appVars >>

\* recorder.run() by a direct caller
run ==
    /\ active # << >>
    /\ insts' = runObjs(insts, runTargets(insts, active))
    /\ UNCHANGED << now, faults, rotVars, ret, active, appVars >>

\* recorder.runSingle(name) by a direct caller
runSingle(name) ==
    /\ insts' = runObjs(insts, runSingleTargets(insts, active, name))
    /\ UNCHANGED << now, faults, rotVars, ret, active, appVars >>

\* the start handler: the command spawned its k-th process
onStart(i, k, fault) ==
    /\ i \in DOMAIN insts
    /\ k \in DOMAIN insts[i].procs
    /\ insts[i].procs[k] = "spawning"
    /\ Inject(fault, CanCreate(insts[i].destination))
    /\ insts' = emitted(insts, i, k, "start", "running")
    /\ disk' = created(disk, insts[i].destination, now, fault)
    /\ IF insts[i].cb
       THEN /\ Len(tasks) < 2 * MaxInst
            /\ tasks' = Append(tasks, beginTask(i, insts[i].streamMeta,
                                                 insts[i].destination, now))
       ELSE tasks' = tasks
    /\ UNCHANGED << now, fileList, sweeps, ret, active, boot, dirs, call >>

\* the end handler: the k-th process finished
onEnd(i, k) ==
    /\ i \in DOMAIN insts
    /\ k \in DOMAIN insts[i].procs
    /\ insts[i].procs[k] = "running"
    /\ insts' = emitted(insts, i, k, "end", "exited")
    /\ active' = endHandlerList(insts, active, insts[i].name)
    /\ IF insts[i].cb /\ endCallbackInvoked("end")
       THEN /\ Len(insts) + Cardinality(PendingEnds) < MaxInst
            /\ Len(tasks) < 2 * MaxInst
            /\ tasks' = Append(tasks, endTask(i, insts[i].streamMeta,
                                               insts[i].destination))
       ELSE tasks' = tasks
    /\ UNCHANGED << now, faults, rotVars, ret, boot, dirs >>

\* the error handler: the k-th process failed, launched or not, or the
\* supervision timeout fired
onError(i, k) ==
    /\ i \in DOMAIN insts
    /\ k \in DOMAIN insts[i].procs
    /\ insts[i].procs[k] \in {"spawning", "running"}
    /\ insts' = emitted(insts, i, k, "error", "exited")
    /\ active' = errorHandlerList(insts, active, insts[i].name)
    /\ IF insts[i].cb /\ endCallbackInvoked("error")
       THEN /\ Len(insts) + Cardinality(PendingEnds) < MaxInst
            /\ Len(tasks) < 2 * MaxInst
            /\ tasks' = Append(tasks, endTask(i, insts[i].streamMeta,
                                               insts[i].destination))
       ELSE tasks' = tasks
    /\ UNCHANGED << now, faults, rotVars, ret, boot, dirs >>

\* recorder.stop() by a direct caller
stop ==
    /\ active # << >>
    /\ insts' = stopObjs(insts, runTargets(insts, active))
    /\ active' = stopList(insts, active)
    /\ UNCHANGED << now, faults, rotVars, ret, appVars >>

\* recorder.stopSingle(name) by a direct caller
stopSingle(name, hasStop) ==
    /\ insts' = stopSingleObjs(insts, active, name, hasStop)
    /\ active' = stopList(insts, active)
    /\ ret' = stopSingleRet(insts, active, name, hasStop)
    /\ UNCHANGED << now, faults, rotVars, appVars >>

\* the end handler that only logs: the k-th process finished
onEndLogged(i, k) ==
    /\ i \in DOMAIN insts
    /\ k \in DOMAIN insts[i].procs
    /\ insts[i].procs[k] \in {"running", "killing"}
    /\ insts' = emitted(insts, i, k, "end", "exited")
    /\ UNCHANGED << now, faults, rotVars, ret, active, appVars >>

\* the error handler that only logs: the k-th process failed or was killed
onErrorLogged(i, k) ==
    /\ i \in DOMAIN insts
    /\ k \in DOMAIN insts[i].procs
    /\ insts[i].procs[k] \in {"spawning", "running", "killing"}
    /\ insts' = emitted(insts, i, k, "error", "exited")
    /\ UNCHANGED << now, faults, rotVars, ret, active, appVars >>

NextRecorderStop ==
    \/ \E k \in DOMAIN Streams :
            addInstance(Streams[k], streamPath(Streams[k].name, now))
    \/ run
    \/ \E n \in StreamNames : runSingle(n)
    \/ stop
    \/ \E n \in StreamNames, hasStop \in BOOLEAN : stopSingle(n, hasStop)
    \/ \E i \in 1..MaxInst, k \in 1..MaxRuns : onStart(i, k, FALSE)
    \/ \E i \in 1..MaxInst, k \in 1..MaxRuns : onEndLogged(i, k)
    \/ \E i \in 1..MaxInst, k \in 1..MaxRuns : onErrorLogged(i, k)

SpecRecorderStop == Init /\ [][NextRecorderStop]_vars

\* the supervision timeout of the k-th process fired: the command kills the
\* process and emits error
onTimeout(i, k) ==
    /\ i \in DOMAIN insts
    /\ insts[i].timeout.armed
    /\ onError(i, k)

NextRecorder ==
    \/ \E k \in DOMAIN Streams :
            addInstance(Streams[k], streamPath(Streams[k].name, now))
    \/ run
    \/ \E n \in StreamNames : runSingle(n)
    \/ \E i \in 1..MaxInst, k \in 1..MaxRuns : onStart(i, k, FALSE)
    \/ \E i \in 1..MaxInst, k \in 1..MaxRuns : onEnd(i, k)
    \/ \E i \in 1..MaxInst, k \in 1..MaxRuns : onError(i, k)
    \/ \E i \in 1..MaxInst, k \in 1..MaxRuns : onTimeout(i, k)

SpecRecorder == Init /\ [][NextRecorder]_vars

\* app.run(): with config.rotateOldFiles the old files are scanned first
appRun(rotateOldFiles) ==
    /\ boot.pc = "idle"
    /\ boot' = IF rotateOldFiles THEN [boot EXCEPT !.pc = "glob"]
               ELSE [boot EXCEPT !.pc = "streams", !.k = 1]
    /\ UNCHANGED << now, faults, rotVars, ret, recVars, tasks, dirs >>

\* app.run() awaiting rotate(): where it stands once rotate() ran to its
\* first suspension on the list
bootRotate(list) ==
    LET sw == rotateBegin(list, now) IN
    IF sw.st = "done"
    THEN [pc |-> "streams", files |-> << >>, stats |-> NoStats,
          sweep |-> 0, k |-> 1]
    ELSE [pc |-> "rotate", files |-> << >>, stats |-> NoStats,
          sweep |-> NewSweep, k |-> 0]

\* addOldFilesToRotator: glob resolved with the files, or threw
bootGlob(fault) ==
    /\ boot.pc = "glob"
    /\ FreeSweeps # {}
    /\ Inject(fault, TRUE)
    /\ IF ~fault /\ globFiles # << >>
       THEN /\ boot' = [boot EXCEPT !.pc = "stat", !.files = globFiles]
            /\ sweeps' = sweeps
       ELSE /\ boot' = bootRotate(fileList)
            /\ sweeps' = [sweeps EXCEPT ![NewSweep] =
                                         awaited(rotateBegin(fileList, now))]
    /\ UNCHANGED << now, disk, fileList, ret, recVars, tasks, dirs, call >>

\* addOldFilesToRotator: the stat of the addFile of the next old file is
\* carried out
bootStat ==
    /\ boot.pc = "stat"
    /\ boot' = [boot EXCEPT !.pc = "addOld",
                            !.stats = getFileStats(Head(boot.files))]
    /\ UNCHANGED << now, faults, rotVars, ret, recVars, tasks, dirs >>

\* addOldFilesToRotator: the addFile of the next old file resolved; after the
\* last one app.run() calls rotate()
bootAddOld ==
    /\ boot.pc = "addOld"
    /\ FreeSweeps # {}
    /\ LET file == Head(boot.files)
           newList == addFileList(fileList, file,
                                  streamStorageDuration(Streams, file[1]),
                                  boot.stats)
       IN  /\ fileList' = newList
           /\ IF Tail(boot.files) # << >>
              THEN /\ boot' = [boot EXCEPT !.pc = "stat", !.stats = NoStats,
                                           !.files = Tail(boot.files)]
                   /\ sweeps' = sweeps
              ELSE /\ boot' = bootRotate(newList)
                   /\ sweeps' = [sweeps EXCEPT ![NewSweep] =
                                      awaited(rotateBegin(newList, now))]
    /\ UNCHANGED << now, faults, disk, ret, call, recVars, tasks, dirs >>

\* app.run(): ensureStreamDirExists of the k-th stream resolved or threw; the
\* stream is registered; after the last one recorder.run()
bootStreams(fault) ==
    /\ boot.pc = "streams"
    /\ Len(insts) < MaxInst
    /\ Inject(fault, TRUE)
    /\ LET stream == Streams[boot.k]
           dest == streamPath(ensureStreamDirExists(stream, fault), now)
           objs == addInstanceObjs(insts, active, stream, dest, TRUE)
           list == addInstanceList(insts, active, stream)
           last == boot.k = Len(Streams)
       IN  /\ dirs' = IF fault THEN dirs ELSE ensureDir(dirs, stream.name)
           /\ active' = list
           /\ insts' = IF last THEN runObjs(objs, runTargets(objs, list)) ELSE objs
           /\ boot' = IF last THEN [boot EXCEPT !.pc = "done", !.k = 0]
                      ELSE [boot EXCEPT !.k = boot.k + 1]
    /\ UNCHANGED << now, rotVars, ret, tasks >>

\* recorderBeginCallback: the wait is over, addFile is called and its stat
\* carried out
beginStat(t) ==
    /\ t \in DOMAIN tasks
    /\ tasks[t].kind = "begin" /\ tasks[t].pc = "wait"
    /\ now >= tasks[t].wake
    /\ tasks' = [tasks EXCEPT ![t] =
                    [@ EXCEPT !.pc = "stat", !.wake = 0,
                              !.stats = getFileStats(tasks[t].destination)]]
    /\ UNCHANGED << now, faults, rotVars, ret, recVars, boot, dirs >>

\* recorderBeginCallback: addFile resolved, rotate() is called
beginAddFile(t) ==
    /\ t \in DOMAIN tasks
    /\ tasks[t].kind = "begin" /\ tasks[t].pc = "stat"
    /\ FreeSweeps # {}
    /\ LET newList == addFileList(fileList, tasks[t].destination,
                                  tasks[t].streamMeta.storageDuration,
                                  tasks[t].stats)
           sw == rotateBegin(newList, now)
       IN  /\ fileList' = newList
           /\ sweeps' = [sweeps EXCEPT ![NewSweep] = awaited(sw)]
           /\ tasks' = [tasks EXCEPT ![t] =
                          IF sw.st = "done"
                          THEN [@ EXCEPT !.pc = "deleteEmpty", !.stats = NoStats]
                          ELSE [@ EXCEPT !.pc = "rotate", !.stats = NoStats,
                                         !.sweep = NewSweep]]
    /\ UNCHANGED << now, faults, disk, ret, call, recVars, boot, dirs >>

\* recorderBeginCallback: deleteEmpty resolved
beginDeleteEmpty(t) ==
    /\ t \in DOMAIN tasks
    /\ tasks[t].kind = "begin" /\ tasks[t].pc = "deleteEmpty"
    /\ dirs' = deleteEmptyDirs(disk, dirs)
    /\ disk' = deleteEmptyDisk(disk)
    /\ tasks' = [tasks EXCEPT ![t].pc = "done"]
    /\ UNCHANGED << now, faults, fileList, sweeps, ret, recVars, boot, call >>

\* recorderEndCallback: ensureStreamDirExists resolved or threw; the next
\* instance of the stream is registered and run
endResume(t, fault) ==
    /\ t \in DOMAIN tasks
    /\ tasks[t].kind = "end" /\ tasks[t].pc = "ensureDir"
    /\ Inject(fault, TRUE)
    /\ LET stream == tasks[t].streamMeta
           dest == streamPath(ensureStreamDirExists(stream, fault), now)
           objs == addInstanceObjs(insts, active, stream, dest, TRUE)
           list == addInstanceList(insts, active, stream)
           res == addInstanceRet(insts, active, stream)
       IN  /\ dirs' = IF fault THEN dirs ELSE ensureDir(dirs, stream.name)
           /\ active' = list
           /\ insts' = runObjs(objs, runSingleTargets(objs, list, stream.name))
           /\ tasks' = [tasks EXCEPT ![t] =
                          [@ EXCEPT !.pc = "done", !.res = res,
                                    !.next = IF res = "false" THEN 0 ELSE Len(objs)]]
    /\ UNCHANGED << now, rotVars, ret, boot >>

Next ==
    \/ Tick(MaxAppTime)
    \/ \E f \in BOOLEAN : appRun(f)
    \/ \E fault \in BOOLEAN : bootGlob(fault)
    \/ bootStat
    \/ bootAddOld
    \/ \E fault \in BOOLEAN : bootStreams(fault)
    \/ \E i \in 1..MaxInst, k \in 1..MaxRuns, fault \in BOOLEAN : onStart(i, k, fault)
    \/ \E i \in 1..MaxInst, k \in 1..MaxRuns : onEnd(i, k)
    \/ \E i \in 1..MaxInst, k \in 1..MaxRuns : onError(i, k)
    \/ \E i \in 1..MaxInst, k \in 1..MaxRuns : onTimeout(i, k)
    \/ \E t \in 1..(2 * MaxInst) : beginStat(t)
    \/ \E t \in 1..(2 * MaxInst) : beginAddFile(t)
    \/ \E s \in 1..MaxSweeps, fault \in BOOLEAN : rotateUnlink(s, fault)
    \/ \E s \in 1..MaxSweeps : rotateUnlinkDone(s)
    \/ \E t \in 1..(2 * MaxInst) : beginDeleteEmpty(t)
    \/ \E t \in 1..(2 * MaxInst), fault \in BOOLEAN : endResume(t, fault)

Spec == Init /\ [][Next]_vars

\* the rotator at one instant, driven by a direct caller
NextRotator ==
    \/ \E p \in ApiPaths : ExternalDelete(p)
    \/ \E p \in ApiPaths, d \in Durations : addFile(p, d)
    \/ addFileDone
    \/ \E p \in ApiPaths, fault \in BOOLEAN : removeFile(p, fault)
    \/ removeFileDone
    \/ rotate
    \/ \E s \in 1..MaxSweeps, fault \in BOOLEAN : rotateUnlink(s, fault)
    \/ \E s \in 1..MaxSweeps : rotateUnlinkDone(s)

SpecRotator == Init /\ [][NextRotator]_vars

\* the same without the caller's removeFile: the unlinks are the sweeps'
NextSweeps ==
    \/ \E p \in ApiPaths : ExternalDelete(p)
    \/ \E p \in ApiPaths, d \in Durations : addFile(p, d)
    \/ addFileDone
    \/ rotate
    \/ \E s \in 1..MaxSweeps, fault \in BOOLEAN : rotateUnlink(s, fault)
    \/ \E s \in 1..MaxSweeps : rotateUnlinkDone(s)

SpecSweeps == Init /\ [][NextSweeps]_vars

\* the rotator on a clock, tracking one file beside a writer that replaces or
\* removes it
NextRotatorEnv ==
    \/ Tick(MaxTime)
    \/ ExternalReplace(OldFile)
    \/ ExternalDelete(OldFile)
    \/ \E d \in Durations : addFile(OldFile, d)
    \/ addFileDone
    \/ rotate
    \/ \E s \in 1..MaxSweeps, fault \in BOOLEAN : rotateUnlink(s, fault)
    \/ \E s \in 1..MaxSweeps : rotateUnlinkDone(s)

SpecRotatorEnv == Init /\ [][NextRotatorEnv]_vars

(* --------------------------- the app on a clock ------------------------ *)

\* a configuration of one stream: fileDuration 3 s, storageDuration
\* fileDuration + 30 s
TimedStream ==
    [name |-> "cam1", storageDuration |-> 3 + TimeoutSlack, fileDuration |-> 3]

\* app.run() has returned: rotateOldFiles is off, the stream is registered
\* with both callbacks and recorder.run() was called
InitTimed ==
    LET dest == streamPath(ensureStreamDirExists(TimedStream, FALSE), 0)
        objs == addInstanceObjs(<< >>, << >>, TimedStream, dest, TRUE)
        list == addInstanceList(<< >>, << >>, TimedStream)
    IN  /\ now = 0
        /\ faults = 0
        /\ disk = [p \in ApiPaths |->
                     [isFile |-> p # DirPath, birthtime |-> -1]]
        /\ fileList = << >>
        /\ sweeps = [s \in 1..MaxSweeps |-> IdleSweep]
        /\ ret = "none"
        /\ call = IdleCall
        /\ insts = runObjs(objs, runTargets(objs, list))
        /\ active = list
        /\ tasks = << >>
        /\ boot = [pc |-> "done", files |-> << >>, stats |-> NoStats,
                   sweep |-> 0, k |-> 0]
        /\ dirs = ensureDir({ StreamDir(p[1]) : p \in ApiPaths },
                             TimedStream.name)

\* the app calls run() or runSingle() in the turn it allocated the path in:
\* the second in the path's name
ranAt(inst) == inst.destination[2]

\* something is scheduled for the instant t: the wait of a begin callback
\* ends, a timeout runs out, the age of a tracked entry passes its
\* storageDuration, a command that was run gets its process in the second
\* after
Scheduled(t) ==
    \/ \E k \in DOMAIN tasks :
            tasks[k].kind = "begin" /\ tasks[k].pc = "wait" /\ tasks[k].wake = t
    \/ \E i \in DOMAIN insts : \E k \in DOMAIN insts[i].procs :
            /\ insts[i].procs[k] = "running"
            /\ Due(insts[i], k, t)
            /\ ~Due(insts[i], k, t - 1)
    \/ \E j \in DOMAIN fileList :
            Expired(fileList[j], t) /\ ~Expired(fileList[j], t - 1)
    \/ \E i \in DOMAIN insts : \E k \in DOMAIN insts[i].procs :
            insts[i].procs[k] = "spawning" /\ t = ranAt(insts[i]) + 1

\* time passes, by d seconds, to the next instant the app is looked at:
\* one something is scheduled for.  A timeout that is due fires and a wait
\* that is over ends before the clock moves on, a command spawns its process
\* within a second of run(), and a stat or an unlink is over within the
\* second it was called in
Elapse(d) ==
    /\ d >= 1
    /\ now + d <= Horizon
    /\ Scheduled(now + d)
    /\ \A i \in DOMAIN insts : \A k \in DOMAIN insts[i].procs :
            /\ insts[i].procs[k] = "running" => ~Due(insts[i], k, now + d - 1)
            /\ insts[i].procs[k] = "spawning" => now + d <= ranAt(insts[i]) + 1
    /\ \A k \in DOMAIN tasks :
            /\ (tasks[k].kind = "begin" /\ tasks[k].pc = "wait")
                    => now + d <= tasks[k].wake
            /\ tasks[k].pc # "stat"
    /\ \A s \in 1..MaxSweeps : sweeps[s].st # "pending"
    /\ now' = now + d
    /\ UNCHANGED << faults, disk, fileList, sweeps, ret, recVars, appVars, call >>

\* the start handler on a clock: the command spawned its k-th process and
\* started its timeout
onStartTimed(i, k) ==
    /\ i \in DOMAIN insts
    /\ k \in DOMAIN insts[i].procs
    /\ insts[i].procs[k] = "spawning"
    /\ insts' = armTimer(emitted(insts, i, k, "start", "running"), i, k, now)
    /\ disk' = created(disk, insts[i].destination, now, FALSE)
    /\ IF insts[i].cb
       THEN /\ Len(tasks) < 2 * MaxInst
            /\ tasks' = Append(tasks, beginTask(i, insts[i].streamMeta,
                                                 insts[i].destination, now))
       ELSE tasks' = tasks
    /\ UNCHANGED << now, faults, fileList, sweeps, ret, active, boot, dirs, call >>

\* the supervision timeout of the k-th process fires when it has run out
onTimeoutDue(i, k) ==
    /\ i \in DOMAIN insts
    /\ k \in DOMAIN insts[i].procs
    /\ insts[i].procs[k] = "running"
    /\ Due(insts[i], k, now)
    /\ onTimeout(i, k)

\* rotate is the rotate() of the begin callback of another stream's instance
NextTimed ==
    \/ \E d \in 1..Horizon : Elapse(d)
    \/ \E i \in 1..MaxInst, k \in 1..MaxRuns : onStartTimed(i, k)
    \/ \E i \in 1..MaxInst, k \in 1..MaxRuns : onEnd(i, k)
    \/ \E i \in 1..MaxInst, k \in 1..MaxRuns : onError(i, k)
    \/ \E i \in 1..MaxInst, k \in 1..MaxRuns : onTimeoutDue(i, k)
    \/ \E t \in 1..(2 * MaxInst) : beginStat(t)
    \/ \E t \in 1..(2 * MaxInst) : beginAddFile(t)
    \/ rotate
    \/ \E s \in 1..MaxSweeps, fault \in BOOLEAN : rotateUnlink(s, fault)
    \/ \E s \in 1..MaxSweeps : rotateUnlinkDone(s)
    \/ \E t \in 1..(2 * MaxInst) : beginDeleteEmpty(t)
    \/ \E t \in 1..(2 * MaxInst) : endResume(t, FALSE)

SpecTimed == InitTimed /\ [][NextTimed]_vars

(* ------------------------------- claims ------------------------------- *)

ActiveNames == { insts[active[k]].name : k \in DOMAIN active }

UniqueNames ==
    \A a, b \in DOMAIN active :
        insts[active[a]].name = insts[active[b]].name => a = b

\* C1: the active-instance set never holds two instances with the same stream
\* name, and an addInstance whose name is already active returns false and
\* leaves the active set and every instance object as they were.
C1_Uniqueness ==
    /\ []UniqueNames
    /\ [][\A k \in DOMAIN Streams :
            (/\ addInstance(Streams[k], streamPath(Streams[k].name, now))
             /\ Streams[k].name \in ActiveNames)
            => (ret' = "false" /\ active' = active /\ insts' = insts)]_vars

\* a direct caller's addInstance was rejected while an instance that already
\* emitted start is active
C1_Witness ==
    /\ ret = "false"
    /\ \E k \in DOMAIN active : insts[active[k]].events = << "start" >>

\* ---- sweeps, as a caller of the rotator observes them ----

\* the step is a rotate() call booked in slot s / the resumption of sweep s
Called(s) == sweeps[s].st # "pending" /\ sweeps'[s] # sweeps[s]
Resumed(s) == sweeps[s].st = "pending" /\ sweeps'[s].seen # sweeps[s].seen

\* the entries sweep s evaluates in the step
NewNotes(s) ==
    LET base == IF Called(s) THEN 0 ELSE Len(sweeps[s].seen) IN
    { sweeps'[s].seen[j] : j \in (base + 1)..Len(sweeps'[s].seen) }

\* the outcome of the removeFile call sweep s was waiting for
Outcome(s) == sweeps'[s].seen[Len(sweeps[s].seen)].res

\* the step carries out the unlink sweep s waits for
Unlinked(s) ==
    /\ sweeps[s].st = "pending" /\ sweeps[s].unlink = "called"
    /\ sweeps'[s].unlink \in {"ok", "fail"}

\* the sweep calls removeFile for an entry exactly when the entry's age
\* exceeds its storageDuration at the moment of evaluation
AttemptedIffExpired ==
    \A s \in 1..MaxSweeps :
        (Called(s) \/ Resumed(s)) =>
            \A n \in NewNotes(s) :
                (n.res # "skip") <=> (now - n.birthtime > n.storageDuration)

\* C2: a sweep calls removeFile for a tracked entry if and only if
\* now - creationTime > storageDuration when it evaluates the entry; the file is
\* deleted if and only if that call's unlink succeeds, and its entries are
\* dropped when that unlink resolves; a failed unlink leaves disk and list
\* alone; a sweep deletes nothing on account of an entry whose age is at most
\* its storageDuration.
C2_Retention ==
    [][/\ AttemptedIffExpired
       /\ \A s \in 1..MaxSweeps :
            Unlinked(s) =>
              LET p == sweeps[s].path
                  n == sweeps[s].seen[Len(sweeps[s].seen)]
              IN  /\ n.path = p
                  /\ now - n.birthtime > n.storageDuration
                  /\ sweeps'[s].unlink = "ok" <=>
                        (Deletable(p) /\ faults' = faults)
                  /\ sweeps'[s].unlink = "ok" =>
                        DOMAIN disk' = DOMAIN disk \ {p}
                  /\ sweeps'[s].unlink = "fail" => disk' = disk
                  /\ fileList' = fileList
       /\ \A s \in 1..MaxSweeps :
            Resumed(s) =>
              LET p == sweeps[s].path IN
                  /\ Outcome(s) = "ok" <=> sweeps[s].unlink = "ok"
                  /\ Outcome(s) = "ok" =>
                        p \notin { fileList'[i].path : i \in DOMAIN fileList' }
                  /\ Outcome(s) # "ok" => fileList' = fileList
                  /\ disk' = disk
       /\ \A s \in 1..MaxSweeps :
            Called(s) => disk' = disk /\ fileList' = fileList]_vars

\* a sweep passed one entry that had not expired and removed one that had
C2_Witness ==
    \E s \in 1..MaxSweeps :
        \E j, k \in DOMAIN sweeps[s].seen :
            /\ sweeps[s].seen[j].res = "skip"
            /\ sweeps[s].seen[k].res = "ok"
            /\ sweeps[s].seen[k].path \notin DOMAIN disk

\* C2 as stated: the entry is removed (file deleted, entry dropped) exactly
\* when its age exceeds its storageDuration at evaluation
C2_AsStated ==
    [][/\ AttemptedIffExpired
       /\ \A s \in 1..MaxSweeps :
            Unlinked(s) => sweeps[s].path \notin DOMAIN disk'
       /\ \A s \in 1..MaxSweeps :
            Resumed(s) =>
                sweeps[s].path \notin
                    { fileList'[i].path : i \in DOMAIN fileList' }]_vars

\* ---- the rotator with rotate() called again and again ----

FairSpecRotator ==
    /\ SpecSweeps
    /\ WF_vars(rotate)
    /\ \A s \in 1..MaxSweeps :
            /\ WF_vars(\E fault \in BOOLEAN : rotateUnlink(s, fault))
            /\ WF_vars(rotateUnlinkDone(s))

ExpiredTracked(p) ==
    \E i \in DOMAIN fileList :
        fileList[i].path = p /\ Expired(fileList[i], now)

\* C3: with rotate() invoked repeatedly, every tracked entry whose age exceeds
\* its storageDuration is eventually no longer tracked.
C3_EventuallyUntracked ==
    \A p \in ApiPaths : ExpiredTracked(p) ~> (p \notin TrackedPaths)

\* ---- one sweep against the list it was called on ----

SameEntry(n, file) ==
    /\ n.path = file.path
    /\ n.storageDuration = file.storageDuration
    /\ n.birthtime = file.stats.birthtime

\* sweep s evaluates the entries of the list it was called on in order, each
\* once, whatever removeFile does to the tracked list meanwhile
InOrderOnce(s) ==
    LET sw == sweeps[s] IN
    /\ \A j \in DOMAIN sw.seen :
            j <= Len(sw.start) => SameEntry(sw.seen[j], sw.start[j])
    /\ sw.st = "done" => Len(sw.seen) >= Len(sw.start)
    /\ sw.st = "pending" =>
            /\ sw.idx = Len(sw.seen)
            /\ sw.seen[sw.idx].res = "pending"
    /\ \A j \in DOMAIN sw.seen :
            sw.seen[j].res = "pending" => (sw.st = "pending" /\ j = sw.idx)

\* C9: a removeFile that replaces the tracked list while a sweep iterates does
\* not make the sweep skip or repeat an entry: every entry of the list the
\* sweep was called on is evaluated exactly once, in order, removeFile is
\* called for it if it is expired, and it is removed if that unlink succeeds.
C9_SnapshotSafe ==
    /\ [](\A s \in 1..MaxSweeps : InOrderOnce(s))
    /\ [][/\ AttemptedIffExpired
          /\ \A s \in 1..MaxSweeps :
                (Resumed(s) /\ sweeps[s].unlink = "ok")
                    => sweeps[s].path \notin
                            { fileList'[i].path : i \in DOMAIN fileList' }]_vars

\* a sweep called on [A, B], both expired, removed A and then B
C9_Witness ==
    \E s \in 1..MaxSweeps :
        LET sw == sweeps[s] IN
        /\ sw.st = "done"
        /\ Len(sw.start) = 2
        /\ sw.start[1].path # sw.start[2].path
        /\ Len(sw.seen) = 2
        /\ sw.seen[1].res = "ok"
        /\ sw.seen[2].res = "ok"
        /\ sw.seen[2].path \notin DOMAIN disk

\* C9 as stated: once A was removed during the sweep, an expired B is
\* evaluated and removed
C9_AsStated ==
    \A s \in 1..MaxSweeps :
        LET sw == sweeps[s] IN
        sw.st = "done" =>
            \A i, j \in DOMAIN sw.seen :
                (i < j /\ sw.seen[i].res = "ok" /\ sw.seen[j].res # "skip")
                    => /\ sw.seen[j].path \notin DOMAIN disk
                       /\ sw.seen[j].path \notin TrackedPaths

\* ---- removeFile when the unlink fails ----

\* the step is a client's removeFile(p) whose unlink fails / the same
\* removeFile returning
RemoveFailed(p) ==
    \E fault \in BOOLEAN : removeFile(p, fault) /\ ~UnlinkOk(p, fault)
RemoveReturned(p, ok) ==
    removeFileDone /\ call.path = p /\ call.ok = ok

\* C10: when the unlink of removeFile fails the tracked list keeps the entry
\* (the list and the disk are as before), and the next rotate() call attempts
\* the deletion again if the entry is expired then; when the unlink succeeds
\* no entry for the path stays tracked as removeFile returns.
C10_FailedDeleteKeepsEntry ==
    [][/\ \A p \in ApiPaths :
            (RemoveFailed(p) \/ RemoveReturned(p, FALSE))
                => fileList' = fileList /\ disk' = disk
       /\ \A p \in ApiPaths :
            removeFile(p, FALSE) =>
                /\ call'.ok <=> Deletable(p)
                /\ fileList' = fileList
       /\ \A p \in ApiPaths :
            RemoveReturned(p, TRUE) =>
                p \notin { fileList'[i].path : i \in DOMAIN fileList' }
       /\ \A s \in 1..MaxSweeps :
            (Resumed(s) /\ Outcome(s) = "ok") =>
                sweeps[s].path \notin
                    { fileList'[i].path : i \in DOMAIN fileList' }
       /\ \A s \in 1..MaxSweeps :
            (Resumed(s) /\ Outcome(s) = "fail") =>
                fileList' = fileList /\ disk' = disk
       /\ \A s \in 1..MaxSweeps :
            Called(s) =>
                \A i \in DOMAIN fileList :
                    (/\ Expired(fileList[i], now)
                     /\ \A j \in 1..(i - 1) : ~Expired(fileList[j], now))
                    => /\ sweeps'[s].st = "pending"
                       /\ sweeps'[s].idx = i
                       /\ sweeps'[s].path = fileList[i].path]_vars

\* an unlink failed in one sweep, the entry is still tracked, and a later
\* sweep is deleting the same file again
C10_Witness ==
    \E s, u \in 1..MaxSweeps :
        /\ s # u
        /\ sweeps[s].st = "done"
        /\ sweeps[u].st = "pending"
        /\ sweeps[u].path \in TrackedPaths
        /\ \E j \in DOMAIN sweeps[s].seen :
                /\ sweeps[s].seen[j].res = "fail"
                /\ sweeps[s].seen[j].path = sweeps[u].path

\* ---- the recorder's events and callbacks, in the running app ----

\* C4: in the app every instance is run once, and what its command emits is a
\* prefix of [start, end], of [start, error] or of [error]: at most one start,
\* first; at most one terminal event; never both end and error.
C4_LifecycleOrder ==
    \A i \in DOMAIN insts :
        /\ Len(insts[i].procs) <= 1
        /\ insts[i].events \in { << >>, << "start" >>, << "start", "end" >>,
                                 << "start", "error" >>, << "error" >> }

\* one instance went [start, end], another [start, error]
C4_Witness ==
    \E i, j \in DOMAIN insts :
        /\ insts[i].events = << "start", "end" >>
        /\ insts[j].events = << "start", "error" >>

\* C4 as stated: start always comes first
C4_AsStated ==
    \A i \in DOMAIN insts :
        insts[i].events \in { << >>, << "start" >>, << "start", "end" >>,
                              << "start", "error" >> }

EndTasks == { t \in DOMAIN tasks : tasks[t].kind = "end" }

\* C5: the end handler takes the instance out of the active set and then
\* invokes endCallback with the instance's own streamMeta and destination;
\* the addInstance the callback makes for the same name is accepted.
C5_EndRemovesThenCallback ==
    /\ [][\A i \in 1..MaxInst, k \in 1..MaxRuns :
            onEnd(i, k) =>
                /\ \A a \in DOMAIN active' : active'[a] # i
                /\ insts[i].name \notin
                        { insts'[active'[a]].name : a \in DOMAIN active' }
                /\ insts[i].cb =>
                        /\ Len(tasks') = Len(tasks) + 1
                        /\ tasks'[Len(tasks')].kind = "end"
                        /\ tasks'[Len(tasks')].pc = "ensureDir"
                        /\ tasks'[Len(tasks')].streamMeta = insts[i].streamMeta
                        /\ tasks'[Len(tasks')].destination = insts[i].destination]_vars
    /\ [](\A t \in EndTasks :
            tasks[t].pc = "done" =>
                /\ tasks[t].res = "undefined"
                /\ tasks[t].next \in DOMAIN insts
                /\ tasks[t].next > tasks[t].inst
                /\ insts[tasks[t].next].name = tasks[t].streamMeta.name
                /\ insts[tasks[t].next].streamMeta = tasks[t].streamMeta)

\* an instance ended and the callback's addInstance for its name was accepted
C5_Witness ==
    \E t \in EndTasks :
        /\ tasks[t].pc = "done"
        /\ tasks[t].res = "undefined"
        /\ insts[tasks[t].inst].events = << "start", "end" >>
        /\ \E a \in DOMAIN active : active[a] = tasks[t].next

\* C6: an instance whose command emitted error is no longer in the recorder's
\* active-instance set.
C6_ErrorRemoves ==
    \A a \in DOMAIN active :
        \A e \in DOMAIN insts[active[a]].events :
            insts[active[a]].events[e] # "error"

\* C7: endCallback is invoked only for an instance whose command emitted end,
\* never for one that emitted error, and the error handler invokes nothing.
C7_NoCallbackOnError ==
    /\ [](\A t \in EndTasks :
            /\ \E e \in DOMAIN insts[tasks[t].inst].events :
                    insts[tasks[t].inst].events[e] = "end"
            /\ \A e \in DOMAIN insts[tasks[t].inst].events :
                    insts[tasks[t].inst].events[e] # "error")
    /\ [][\A i \in 1..MaxInst, k \in 1..MaxRuns :
            onError(i, k) => tasks' = tasks]_vars

\* an instance with callbacks failed after another one's end was called back
C7_Witness ==
    /\ EndTasks # {}
    /\ \E i \in DOMAIN insts :
            /\ insts[i].cb
            /\ insts[i].events = << "start", "error" >>
            /\ \A t \in EndTasks : tasks[t].inst # i

\* ---- the app with its end callbacks resumed ----

\* the app's capture loop: startup, the recorder's events and the end
\* callbacks, the begin callbacks left in their wait
NextCapture ==
    \/ Tick(MaxAppTime)
    \/ \E f \in BOOLEAN : appRun(f)
    \/ \E fault \in BOOLEAN : bootGlob(fault)
    \/ bootStat
    \/ bootAddOld
    \/ \E s \in 1..MaxSweeps, fault \in BOOLEAN : rotateUnlink(s, fault)
    \/ \E s \in 1..MaxSweeps : rotateUnlinkDone(s)
    \/ \E fault \in BOOLEAN : bootStreams(fault)
    \/ \E i \in 1..MaxInst, k \in 1..MaxRuns, fault \in BOOLEAN : onStart(i, k, fault)
    \/ \E i \in 1..MaxInst, k \in 1..MaxRuns : onEnd(i, k)
    \/ \E i \in 1..MaxInst, k \in 1..MaxRuns : onError(i, k)
    \/ \E i \in 1..MaxInst, k \in 1..MaxRuns : onTimeout(i, k)
    \/ \E t \in 1..(2 * MaxInst), fault \in BOOLEAN : endResume(t, fault)

SpecCapture == Init /\ [][NextCapture]_vars

FairSpec ==
    /\ SpecCapture
    /\ \A t \in 1..(2 * MaxInst) :
            WF_vars(\E fault \in BOOLEAN : endResume(t, fault))

\* instance i of the app emitted end
Ended(i) ==
    /\ i \in DOMAIN insts
    /\ insts[i].cb
    /\ \E e \in DOMAIN insts[i].events : insts[i].events[e] = "end"

\* a later instance of the same stream is registered and was run
Respawned(i) ==
    \E j \in DOMAIN insts :
        /\ j > i
        /\ insts[j].name = insts[i].name
        /\ insts[j].procs # << >>
        /\ \E t \in EndTasks :
                /\ tasks[t].inst = i
                /\ tasks[t].next = j
                /\ tasks[t].pc = "done"

\* C8: whenever an instance of a stream ends, a new instance of the same
\* stream is eventually registered, with the destination allocated by the end
\* callback, and run.
C8_CaptureLoop ==
    \A i \in 1..MaxInst : Ended(i) ~> Respawned(i)

\* the successor of an ended instance is in the active set and running
C8_Witness ==
    \E i \in DOMAIN insts :
        /\ Ended(i)
        /\ Respawned(i)
        /\ \E a \in DOMAIN active :
                /\ active[a] > i
                /\ insts[active[a]].name = insts[i].name
                /\ insts[active[a]].events = << "start" >>

\* ---- addFile, as its caller observes it ----

IsRegularFile(p) == p \in DOMAIN disk /\ disk[p].isFile

\* the stats of a regular file born at b
FileStats(b) == [found |-> TRUE, isFile |-> TRUE, birthtime |-> b]

\* C11: addFile(path, storageDuration) stats the path once and, when the stat
\* resolves, appends exactly one entry (the path, the storageDuration, the
\* stats it read) if the path was a regular file; if the stat failed or the
\* path was not a regular file it returns false and leaves the tracked list
\* as it was; either way it touches nothing else.
C11_AddFile ==
    [][/\ \A p \in ApiPaths, d \in Durations :
            addFile(p, d) =>
                /\ call'.path = p /\ call'.storageDuration = d
                /\ IsRegularFile(p) =>
                        call'.stats = FileStats(disk[p].birthtime)
                /\ ~IsRegularFile(p) => NotAFile(call'.stats)
                /\ fileList' = fileList /\ ret' = ret
                /\ disk' = disk /\ sweeps' = sweeps
       /\ addFileDone =>
                /\ ~NotAFile(call.stats) =>
                        /\ fileList' = Append(fileList,
                                [path |-> call.path,
                                 storageDuration |-> call.storageDuration,
                                 stats |-> call.stats])
                        /\ ret' = "undefined"
                /\ NotAFile(call.stats) =>
                        /\ fileList' = fileList
                        /\ ret' = "false"
                /\ disk' = disk /\ sweeps' = sweeps]_vars

\* one addFile was accepted, a later one on a directory or a missing file
\* was refused, and the list holds the one entry
C11_Witness ==
    /\ ret = "false"
    /\ Len(fileList) = 1
    /\ fileList[1].stats.birthtime = -1
    /\ \E p \in ApiPaths : ~IsRegularFile(p)

\* ---- reconciliation at startup ----

\* a configuration in which two streams share a name
TwinStreams ==
    << [name |-> "cam1", storageDuration |-> 3, fileDuration |-> 1],
       [name |-> "cam2", storageDuration |-> 0, fileDuration |-> 0],
       [name |-> "cam1", storageDuration |-> 0, fileDuration |-> 1] >>

\* the storageDuration the scan owes a file below the directory streamName:
\* that of the first stream of that name, 0 without one
OwedDuration(streams, streamName) ==
    LET ks == { k \in DOMAIN streams : streams[k].name = streamName } IN
    IF ks = {} THEN 0
    ELSE streams[CHOOSE k \in ks : \A j \in ks : k <= j].storageDuration

\* C12: every file the startup scan discovers is tracked with the
\* storageDuration of the first configured stream named like the first path
\* segment below the root, and with 0 when no stream has that name.
C12_Reconciliation ==
    /\ [][/\ bootStat =>
                boot'.stats = FileStats(disk[Head(boot.files)].birthtime)
          /\ bootAddOld =>
                LET file == Head(boot.files) IN
                fileList' = Append(fileList,
                    [path |-> file,
                     storageDuration |-> OwedDuration(Streams, file[1]),
                     stats |-> boot.stats])]_vars
    /\ [](boot.pc \in {"stat", "addOld"} =>
            \A n \in {"cam1", "cam2", "unknown"} :
                streamStorageDuration(TwinStreams, n) = OwedDuration(TwinStreams, n))

\* the scan tracked the file of a configured stream with that stream's
\* storageDuration and the file of no stream with 0
C12_Witness ==
    /\ boot.pc \in {"rotate", "streams"}
    /\ Len(fileList) = 2
    /\ fileList[1].path = OldFile /\ fileList[1].storageDuration = 3
    /\ fileList[2].path = OrphanFile /\ fileList[2].storageDuration = 0

\* ---- a segment from its start to its removal ----

BeginTasks == { t \in DOMAIN tasks : tasks[t].kind = "begin" }

HasEvent(i, event) ==
    \E e \in DOMAIN insts[i].events : insts[i].events[e] = event

\* C13: the start handler of an instance hands its own streamMeta and
\* destination to the begin callback; when the callback's wait is over and the
\* destination is a regular file, the callback tracks it with the owning
\* stream's storageDuration - at that moment, which can be after the
\* instance's end - and calls rotate(); a rotate() that finds an entry expired
\* leaves neither the file nor its entries when the delete succeeds.
C13_SegmentRetention ==
    /\ [](\A t \in BeginTasks :
            /\ tasks[t].streamMeta = insts[tasks[t].inst].streamMeta
            /\ tasks[t].destination = insts[tasks[t].inst].destination
            /\ HasEvent(tasks[t].inst, "start"))
    /\ [][\A i \in 1..MaxInst, k \in 1..MaxRuns, fault \in BOOLEAN :
            (onStart(i, k, fault) /\ insts[i].cb) =>
                /\ Len(tasks') = Len(tasks) + 1
                /\ tasks'[Len(tasks')].kind = "begin"
                /\ tasks'[Len(tasks')].inst = i
                /\ tasks'[Len(tasks')].pc = "wait"]_vars
    /\ [][\A t \in 1..(2 * MaxInst) :
            /\ (beginStat(t) /\ IsRegularFile(tasks[t].destination)) =>
                    tasks'[t].stats =
                        FileStats(disk[tasks[t].destination].birthtime)
            /\ (beginAddFile(t) /\ ~NotAFile(tasks[t].stats)) =>
                    fileList' = Append(fileList,
                        [path |-> tasks[t].destination,
                         storageDuration |->
                            insts[tasks[t].inst].streamMeta.storageDuration,
                         stats |-> tasks[t].stats])]_vars
    /\ [][\A s \in 1..MaxSweeps :
            /\ (rotateUnlink(s, FALSE) /\ IsRegularFile(sweeps[s].path)) =>
                    /\ sweeps[s].path \notin DOMAIN disk'
                    /\ sweeps'[s].unlink = "ok"
            /\ (rotateUnlinkDone(s) /\ sweeps[s].unlink = "ok") =>
                    sweeps[s].path \notin
                        { fileList'[i].path : i \in DOMAIN fileList' }]_vars
    /\ [](\A s \in 1..MaxSweeps :
            sweeps[s].st = "pending" =>
                \E i \in DOMAIN Iterable(sweeps[s], fileList) :
                    /\ Iterable(sweeps[s], fileList)[i].path = sweeps[s].path
                    /\ Expired(Iterable(sweeps[s], fileList)[i], now))

\* an instance started and ended, its segment is tracked with its stream's
\* storageDuration, has expired, and a rotate() is deleting it
C13_Witness ==
    \E i \in DOMAIN insts :
        /\ insts[i].cb
        /\ insts[i].events = << "start", "end" >>
        /\ \E k \in DOMAIN fileList :
                /\ fileList[k].path = insts[i].destination
                /\ fileList[k].storageDuration = insts[i].streamMeta.storageDuration
                /\ Expired(fileList[k], now)
        /\ \E s \in 1..MaxSweeps :
                sweeps[s].st = "pending" /\ sweeps[s].path = insts[i].destination

\* C13 as stated: the segment is tracked before its instance's end fires, and
\* a rotate() that finds it expired leaves neither file nor entry
C13_AsStated ==
    /\ [][\A t \in 1..(2 * MaxInst) :
            (beginAddFile(t) /\ ~NotAFile(tasks[t].stats)) =>
                ~HasEvent(tasks[t].inst, "end")]_vars
    /\ [][\A s \in 1..MaxSweeps :
            rotateUnlinkDone(s) =>
                /\ sweeps[s].path \notin DOMAIN disk'
                /\ sweeps[s].path \notin
                        { fileList'[i].path : i \in DOMAIN fileList' }]_vars

\* ---- run and runSingle, as their caller observes them ----

\* C14: after any sequence of addInstance, run and runSingle calls no
\* instance's process has been started more than once.
C14_StartedOnce ==
    \A i \in DOMAIN insts : Len(insts[i].procs) <= 1

\* the active instances named name
Named(name) ==
    { active[k] : k \in { j \in DOMAIN active : insts[active[j]].name = name } }

\* the command of instance i was run once more in the step (or could not be,
\* the model keeping at most MaxRuns processes per command)
RanOnce(i) ==
    /\ insts'[i] = [insts[i] EXCEPT !.procs =
                        IF Len(@) < MaxRuns THEN Append(@, "spawning") ELSE @]

\* C15: runSingle(name) runs the command of the one active instance named
\* name and of no other; without such an instance it changes nothing; either
\* way the active set stays as it was.
C15_RunSingle ==
    [][\A n \in StreamNames :
            runSingle(n) =>
                /\ active' = active
                /\ Cardinality(Named(n)) <= 1
                /\ \A i \in DOMAIN insts :
                        IF i \in Named(n) THEN RanOnce(i)
                        ELSE insts'[i] = insts[i]
                /\ DOMAIN insts' = DOMAIN insts
                /\ Named(n) = {} => insts' = insts]_vars

\* the later registered of two active instances was run and the earlier one
\* was not: a runSingle, run() starting both
C15_Witness ==
    \E i, j \in DOMAIN insts :
        /\ j < i
        /\ \E a, b \in DOMAIN active : active[a] = i /\ active[b] = j
        /\ insts[i].procs = << "spawning" >>
        /\ insts[j].procs = << >>

\* ---- a stream whose directory cannot be made ----

\* C16: no instance is registered with a destination derived from a failed
\* directory creation (ensureStreamDirExists returned false).
C16_FailedAllocationSkipped ==
    \A i \in DOMAIN insts : insts[i].destination[1] # "false"

\* ---- a stream after one of its instances failed ----

\* an instance of the stream emitted error
Failed(name) ==
    \E i \in DOMAIN insts : insts[i].name = name /\ HasEvent(i, "error")

\* C17: once an instance of a stream has emitted error, no instance of that
\* stream is registered and no process is started for that stream any more;
\* the error step itself touches no other instance, no callback and not the
\* active set, so the other streams go on.
C17_LoopHaltsOnError ==
    /\ [][\A n \in StreamNames :
            Failed(n) =>
                \A i \in DOMAIN insts' :
                    insts'[i].name = n =>
                        /\ i \in DOMAIN insts
                        /\ Len(insts'[i].procs) = Len(insts[i].procs)]_vars
    /\ [][\A i \in 1..MaxInst, k \in 1..MaxRuns :
            onError(i, k) =>
                /\ active' = active
                /\ tasks' = tasks
                /\ \A j \in DOMAIN insts : j # i => insts'[j] = insts[j]]_vars

\* one stream failed and stays failed while a successor instance of another
\* stream is recording
C17_Witness ==
    \E i, j \in DOMAIN insts :
        /\ insts[i].events = << "start", "error" >>
        /\ insts[j].name # insts[i].name
        /\ j > Len(Streams)
        /\ insts[j].events = << "start" >>
        /\ \A m \in DOMAIN insts : insts[m].name = insts[i].name => m = i

\* ---- the tracked list under interleaving ----

IsPrefix(a, b) == Len(a) <= Len(b) /\ \A k \in DOMAIN a : a[k] = b[k]

\* the file of the path is deleted in the step
DeletedNow(p) == p \in DOMAIN disk /\ p \notin DOMAIN disk'

\* a removeFile of the path whose unlink succeeded returns in the step
RemovedNow(p) ==
    \E s \in 1..MaxSweeps :
        Resumed(s) /\ sweeps[s].path = p /\ sweeps[s].unlink = "ok"

\* C18: in every step, whatever callbacks, events and sweeps interleave, the
\* tracked list afterwards begins with all the entries it had, in their order,
\* except those of a path whose successful unlink resolves in that very step:
\* an entry is never lost, duplicated away or reordered by a concurrent add,
\* remove or sweep; and an unlink succeeds only by deleting the file.
C18_ListConsistent ==
    [][/\ IsPrefix(SelectSeq(fileList, LAMBDA e : ~RemovedNow(e.path)),
                   fileList')
       /\ \A s \in 1..MaxSweeps :
            (Unlinked(s) /\ sweeps'[s].unlink = "ok") =>
                DeletedNow(sweeps[s].path)]_vars

\* two sweeps are suspended in their unlinks while the list holds an entry
\* that was added after one of them began
C18_Witness ==
    \E s, u \in 1..MaxSweeps :
        /\ s # u
        /\ sweeps[s].st = "pending"
        /\ sweeps[u].st = "pending"
        /\ Len(fileList) > Len(sweeps[s].start)
        /\ \E k \in DOMAIN fileList : fileList[k].path \notin
                { sweeps[s].start[j].path : j \in DOMAIN sweeps[s].start }

\* C19: the tracked list never holds two entries with the same path.
C19_UniquePaths ==
    \A a, b \in DOMAIN fileList :
        fileList[a].path = fileList[b].path => a = b

\* ---- startup ----

\* a rotate() nobody's begin callback awaits is still suspended: the one
\* app.run() called after the scan
BootSweepPending ==
    \E s \in 1..MaxSweeps :
        /\ sweeps[s].st = "pending"
        /\ \A t \in BeginTasks : ~(tasks[t].pc = "rotate" /\ tasks[t].sweep = s)

\* the first n instances are the first n configured streams, in order
RegisteredInOrder(n) ==
    /\ Len(insts) >= n
    /\ \A i \in 1..n : insts[i].name = Streams[i].name

\* C20: during the scan and until its rotate() has finished no instance is
\* registered; the streams are then registered one at a time in configuration
\* order; and no instance is run before every configured stream has been
\* registered.
C20_StartupOrder ==
    /\ boot.pc \in {"idle", "glob", "stat", "addOld", "rotate"} =>
            insts = << >> /\ active = << >> /\ tasks = << >>
    /\ BootSweepPending => (boot.pc = "rotate" /\ insts = << >>)
    /\ boot.pc = "streams" =>
            /\ Len(insts) = boot.k - 1
            /\ active = [i \in 1..(boot.k - 1) |-> i]
            /\ RegisteredInOrder(boot.k - 1)
            /\ \A i \in DOMAIN insts : insts[i].procs = << >>
    /\ \A i \in DOMAIN insts :
            insts[i].procs # << >> =>
                boot.pc = "done" /\ RegisteredInOrder(Len(Streams))

\* the scan tracked an old file, its rotate() is over, the first stream is
\* registered, the second is not yet, and nothing runs
C20_Witness ==
    /\ boot.pc = "streams"
    /\ boot.k = 2
    /\ Len(insts) = 1
    /\ insts[1].procs = << >>
    /\ \E k \in DOMAIN fileList : fileList[k].path = OldFile
    /\ OrphanFile \notin DOMAIN disk

\* the directory holds no file
EmptyDir(d) == ~\E p \in DOMAIN disk : disk[p].isFile /\ p[1] = d

\* C21: when the startup scan's rotate() pass has finished and the streams
\* are about to be registered, no directory emptied by the pass's deletions is
\* left: the directory of a scanned file that the pass deleted is gone if it
\* holds no file any more.
C21_StartupRemovesEmptyDirs ==
    \A p \in {OldFile, OrphanFile} :
        (/\ boot.pc = "streams"
         /\ p \notin DOMAIN disk
         /\ EmptyDir(p[1]))
        => StreamDir(p[1]) \notin dirs

\* ---- the creation time an entry carries ----

\* the entries of a list, as a set
Entries(list) == { list[i] : i \in DOMAIN list }

\* C22: the creation time of an entry is the birthtime addFile read from the
\* file's stats before it pushed the entry and is never read again: an entry
\* keeps its stats as long as it is tracked, also when the file is replaced on
\* disk; every sweep decides on the stored value (it calls removeFile exactly
\* when now - stored birthtime > storageDuration, whatever the file's birthtime
\* on disk is by then); and that call removes file and entry when its unlink
\* succeeds, for a file older than its add and for storageDuration 0 alike.
C22_StoredCreationTime ==
    [][/\ \A p \in ApiPaths, d \in Durations :
            (addFile(p, d) /\ IsRegularFile(p)) =>
                call'.stats = FileStats(disk[p].birthtime)
       /\ \A e \in Entries(fileList') :
            \/ e \in Entries(fileList)
            \/ /\ e.path = call.path
               /\ e.stats = call.stats
       /\ AttemptedIffExpired
       /\ \A s \in 1..MaxSweeps :
            (Called(s) \/ Resumed(s)) =>
                \A n \in NewNotes(s) :
                    \E e \in Entries(fileList) \cup Entries(sweeps[s].arr) :
                        /\ e.path = n.path
                        /\ e.stats.birthtime = n.birthtime
                        /\ e.storageDuration = n.storageDuration
       /\ \A s \in 1..MaxSweeps :
            /\ (Unlinked(s) /\ Deletable(sweeps[s].path) /\ faults' = faults)
                    => /\ sweeps[s].path \notin DOMAIN disk'
                       /\ sweeps'[s].unlink = "ok"
            /\ (Resumed(s) /\ sweeps[s].unlink = "ok") =>
                    \A e \in Entries(fileList') : e.path # sweeps[s].path]_vars

\* a sweep is deleting a file on its stored creation time (older than its
\* storageDuration) while the file on disk was replaced a moment ago
C22_Witness ==
    \E s \in 1..MaxSweeps :
        /\ sweeps[s].st = "pending"
        /\ sweeps[s].path \in DOMAIN disk
        /\ disk[sweeps[s].path].birthtime = now
        /\ \E e \in Entries(fileList) :
            /\ e.path = sweeps[s].path
            /\ e.stats.birthtime < now
            /\ now - e.stats.birthtime > e.storageDuration

\* C22 as stated: a sweep that finished has removed every entry it found
\* older than its storageDuration, be it a file that existed before its add or
\* one tracked with storageDuration 0
C22_AsStated ==
    \A s \in 1..MaxSweeps :
        sweeps[s].st = "done" =>
            \A j \in DOMAIN sweeps[s].seen :
                LET n == sweeps[s].seen[j] IN
                (n.res # "skip" /\ (n.birthtime < 0 \/ n.storageDuration = 0))
                    => n.res = "ok"

\* ---- tracked files and the instances that wrote them ----

\* the step is the removeFile call of sweep s returning, its unlink resolved
RemoveFileOf(s) == rotateUnlinkDone(s)

\* C23: the end and the error of an instance, and the end callback's
\* registration of the next instance of the stream, leave the tracked list as it
\* is; an entry leaves the list only as a removeFile returns, which drops the
\* entries of the one path it unlinked and no other.
C23_TrackedOutliveInstance ==
    [][/\ \A i \in 1..MaxInst, k \in 1..MaxRuns :
            (onEnd(i, k) \/ onError(i, k)) => fileList' = fileList
       /\ \A t \in 1..(2 * MaxInst), fault \in BOOLEAN :
            endResume(t, fault) => fileList' = fileList
       /\ \A e \in Entries(fileList) \ Entries(fileList') :
            \E s \in 1..MaxSweeps :
                /\ RemoveFileOf(s)
                /\ e.path = sweeps[s].path
                /\ sweeps[s].unlink = "ok"
       /\ Len(fileList') < Len(fileList) =>
            \E s \in 1..MaxSweeps :
                /\ RemoveFileOf(s)
                /\ fileList' = SelectSeqBy(fileList, sweeps[s].path)
                /\ \E e \in Entries(fileList) : e.path = sweeps[s].path]_vars

\* the segment of an instance that ended is still tracked after the end
\* callback registered the stream's next instance, and one of an instance that
\* failed is still tracked too
C23_Witness ==
    /\ \E t \in EndTasks :
        /\ tasks[t].pc = "done"
        /\ tasks[t].next # 0
        /\ insts[tasks[t].inst].events = << "start", "end" >>
        /\ insts[tasks[t].inst].destination \in TrackedPaths
    /\ \E i \in DOMAIN insts :
        /\ insts[i].events = << "start", "error" >>
        /\ insts[i].destination \in TrackedPaths

\* ---- stop() and stopSingle(), as a caller of the recorder observes them ----

\* the instance has a process that was asked to terminate and has not yet
\* reported its end or error
Stopped(i) ==
    \E k \in DOMAIN insts[i].procs : insts[i].procs[k] = "killing"

\* C24: stop() and stopSingle(name) leave the active set as it is and change
\* nothing but the processes they signal; an instance that was asked to stop
\* and whose end or error has not been delivered is in the active set, and an
\* addInstance with its name returns false and adds nothing.
C24_StopKeepsInstance ==
    /\ [][/\ stop => active' = active
          /\ \A n \in StreamNames, hasStop \in BOOLEAN :
                stopSingle(n, hasStop) => active' = active
          /\ (stop \/ \E n \in StreamNames, hasStop \in BOOLEAN :
                        stopSingle(n, hasStop)) =>
                \A i \in DOMAIN insts :
                    /\ i \in DOMAIN insts'
                    /\ insts'[i].name = insts[i].name
                    /\ insts'[i].events = insts[i].events
                    /\ \A k \in DOMAIN insts[i].procs :
                        \/ insts'[i].procs[k] = insts[i].procs[k]
                        \/ /\ insts[i].procs[k] = "running"
                           /\ insts'[i].procs[k] = "killing"
          /\ \A k \in DOMAIN Streams :
                (/\ addInstance(Streams[k], streamPath(Streams[k].name, now))
                 /\ \E i \in DOMAIN insts :
                        Stopped(i) /\ insts[i].name = Streams[k].name)
                => (ret' = "false" /\ active' = active /\ insts' = insts)]_vars
    /\ [](\A i \in DOMAIN insts :
            Stopped(i) => \E a \in DOMAIN active : active[a] = i)

\* a stopped instance is still in the active set, before its end or error, and
\* an addInstance by a direct caller has been rejected
C24_Witness ==
    /\ ret = "false"
    /\ \E a \in DOMAIN active :
        /\ Stopped(active[a])
        /\ insts[active[a]].events = << "start" >>

\* ---- the supervision timeout ----

\* C25: an instance has a supervision timeout exactly when its stream's
\* fileDuration is set (non-zero), and then of fileDuration + 30 seconds, with
\* the recording capped at fileDuration; with fileDuration 0 (or absent) it has
\* neither timeout nor cap; and a timeout that fires is delivered as the
\* command's error event: no end event, no end callback.
C25_SupervisionTimeout ==
    /\ [](\A i \in DOMAIN insts :
            LET fd == insts[i].streamMeta.fileDuration IN
            /\ insts[i].timeout.armed <=> fd # 0
            /\ insts[i].duration.capped <=> fd # 0
            /\ fd # 0 => /\ insts[i].timeout.seconds = fd + 30
                         /\ insts[i].duration.seconds = fd)
    /\ [][\A i \in 1..MaxInst, k \in 1..MaxRuns :
            onTimeout(i, k) =>
                /\ insts[i].streamMeta.fileDuration # 0
                /\ insts'[i].events = Append(insts[i].events, "error")
                /\ insts'[i].procs[k] = "exited"
                /\ tasks' = tasks]_vars

\* an instance with the timeout armed went down the error path after its start
\* while an instance without fileDuration, unsupervised, records on
C25_Witness ==
    \E i, j \in DOMAIN insts :
        /\ insts[i].timeout = [armed |-> TRUE, seconds |-> 31]
        /\ insts[i].events = << "start", "error" >>
        /\ ~insts[j].timeout.armed
        /\ ~insts[j].duration.capped
        /\ insts[j].events = << "start" >>

\* ---- two sweeps at the same file ----

\* what the sweeps noted about path p with outcome res
Noted(s, p, res) ==
    \E j \in DOMAIN sweeps[s].seen :
        sweeps[s].seen[j].path = p /\ sweeps[s].seen[j].res = res

OverlapOfStreams ==
    \E t, v \in DOMAIN tasks, s, u \in 1..MaxSweeps :
        /\ s # u
        /\ tasks[t].kind = "begin" /\ tasks[v].kind = "begin"
        /\ tasks[t].streamMeta.name # tasks[v].streamMeta.name
        /\ tasks[t].sweep = s /\ tasks[v].sweep = u
        /\ sweeps[s].st = "pending" /\ sweeps[u].st = "pending"
        /\ sweeps[s].path = sweeps[u].path

\* ---- every sweep comes to an end ----

\* the notes of sweep s are those of the first entries of the array it
\* iterates, one note per entry
OneNotePerEntry(s) ==
    LET sw == sweeps[s]
        arr == Iterable(sw, fileList)
    IN  sw.st = "pending" =>
            /\ sw.idx = Len(sw.seen)
            /\ sw.idx <= Len(arr)
            /\ \A j \in DOMAIN sw.seen : SameEntry(sw.seen[j], arr[j])
            /\ \A j \in DOMAIN sw.seen :
                    sw.seen[j].res = "pending" <=> j = sw.idx

\* C28: every rotate() call comes to its end, also when every unlink fails and
\* while entries are pushed to or filtered from the tracked list; it has one
\* note per entry of the array it iterates, in order, and a note once made
\* (skipped, deleted or failed) is never revised: no entry is attempted twice.
C28_SweepTerminates ==
    /\ \A s \in 1..MaxSweeps :
            (sweeps[s].st = "pending") ~> (sweeps[s].st = "done")
    /\ [](\A s \in 1..MaxSweeps : OneNotePerEntry(s))
    /\ [][\A s \in 1..MaxSweeps :
            sweeps[s].st = "pending" =>
                /\ sweeps'[s].st \in {"pending", "done"}
                /\ Len(sweeps'[s].seen) >= Len(sweeps[s].seen)
                /\ \A j \in DOMAIN sweeps[s].seen :
                        \/ sweeps'[s].seen[j] = sweeps[s].seen[j]
                        \/ /\ j = sweeps[s].idx
                           /\ sweeps'[s].seen[j].res \in {"ok", "fail"}]_vars

\* a sweep called on one entry finished after two unlinks that both failed:
\* the second entry was pushed while the sweep waited for the first
C28_Witness ==
    \E s \in 1..MaxSweeps :
        LET sw == sweeps[s] IN
        /\ sw.st = "done"
        /\ Len(sw.start) = 1
        /\ Len(sw.seen) = 2
        /\ sw.seen[1].res = "fail"
        /\ sw.seen[2].res = "fail"

\* ---- the segment under a running process ----

\* the stream the claim is about: fileDuration set, storageDuration at least
\* fileDuration + 30 s
Supervised(streamMeta) ==
    /\ streamMeta.fileDuration # 0
    /\ streamMeta.storageDuration >= streamMeta.fileDuration + 30

\* sweep s deletes the file of its entry in the step
Deletes(s) == Unlinked(s) /\ DeletedNow(sweeps[s].path)

\* what the timeout does guarantee for such a stream: a sweep deletes the
\* destination file of an instance while a process of it is running only if
\* the file is older than that process, that is, the path was already taken
\* when the process was spawned; a file the process itself created is deleted
\* only after the process ended, failed or ran into its timeout
OwnSegmentOutlivesProcess ==
    [][\A s \in 1..MaxSweeps :
        Deletes(s) =>
            \A i \in DOMAIN insts : \A k \in DOMAIN insts[i].procs :
                (/\ insts[i].destination = sweeps[s].path
                 /\ Supervised(insts[i].streamMeta)
                 /\ insts[i].procs[k] = "running")
                => disk[sweeps[s].path].birthtime < startedAt(insts[i], k)]_vars

\* a sweep deleted the segment a supervised instance's process created, after
\* the process had run into its timeout
OwnSegmentDeleted ==
    \E i \in DOMAIN insts, s \in 1..MaxSweeps :
        /\ Supervised(insts[i].streamMeta)
        /\ insts[i].events = << "start", "error" >>
        /\ insts[i].destination \notin DOMAIN disk
        /\ Noted(s, insts[i].destination, "ok")
        /\ \E j \in DOMAIN sweeps[s].seen :
                /\ sweeps[s].seen[j].path = insts[i].destination
                /\ sweeps[s].seen[j].birthtime = startedAt(insts[i], 1)

\* C27: for a stream with fileDuration set and storageDuration >= fileDuration
\* + 30, no sweep deletes the destination file of an instance while a process
\* of it is running.
C27_NoDeleteWhileRunning ==
    [][\A s \in 1..MaxSweeps :
        Deletes(s) =>
            \A i \in DOMAIN insts : \A k \in DOMAIN insts[i].procs :
                ~(/\ insts[i].destination = sweeps[s].path
                  /\ Supervised(insts[i].streamMeta)
                  /\ insts[i].procs[k] = "running")]_vars

====
